---- MODULE Spec2Model ----
(***************************************************************************)
(* ScatterAnimation (ScatterAnimate.py): a scatter plot animated between   *)
(* snapshots by a frame-driven matplotlib FuncAnimation.                   *)
(*                                                                         *)
(* Coordinates are exact rationals.  The inputs are integers counted in    *)
(* units of 0.05 axis units, so the literal 0.25 of the source is 5 units. *)
(* A displayed coordinate is a reduced fraction [num, den]; a division by  *)
(* zero gives den = 0 (numpy's inf / nan).                                 *)
(* Python's None is the empty sequence for the optional arrays and for a   *)
(* missing label object, "" for a text object that was never created and   *)
(* -1 for a counter that was never set.                                    *)
(* The cosmetic parameters stay at their defaults (colors=False,           *)
(* shadows=False, helpers=None, axis, title, fontsize, figsize).           *)
(***************************************************************************)
EXTENDS Integers, Sequences, FiniteSets

VARIABLES
    position,           \* self.position: snapshot -> point -> <<x, y>>
    sizes,              \* self.sizes: snapshot -> point -> size, or None
    frame_labels,       \* self.frame_labels: one caption per snapshot, or None
    text_labels,        \* self.text_labels: one label per point, or None
    animated,           \* self.animated
    paused,             \* self.paused
    threshold,          \* self.threshold
    lines,              \* self.lines
    debug,              \* self.debug
    repeat,             \* repeat= handed to FuncAnimation
    scat_offsets,       \* offsets of self.scat: point -> <<rx, ry>>
    scat_sizes,         \* the sizes self.scat draws with (s= of plt.scatter)
    scat_mangled_sizes, \* the attribute update() assigns: self.scat.__sizes
    frame_text,         \* text of self.frame_text
    ax_texts,           \* self.ax_texts: point -> label position, or None
    idx_counter,        \* text of self.idx_counter
    ax_lines,           \* the segments ax.plot has drawn, in order
    printed,            \* the frame number of the last progress line printed
    next_idx,           \* update()'s local next_idx in its latest call
    prev_idx,           \* update()'s local prev_idx in its latest call
    phase,              \* which branch the latest update() took
    pc,                 \* the driver: "start", "running", "done", "error"
    frame,              \* the next frame number the driver delivers
    delivered,          \* frames delivered so far in the current pass
    passes              \* passes started so far

config == <<position, sizes, frame_labels, text_labels, animated, paused,
            threshold, lines, debug, repeat>>
render == <<scat_offsets, scat_sizes, scat_mangled_sizes, frame_text, ax_texts,
            idx_counter, ax_lines>>
locals == <<printed, next_idx, prev_idx, phase>>
driver == <<pc, frame, delivered, passes>>
vars == <<config, render, locals, driver>>

---------------------------------------------------------------------------
(* Bounds of the model *)
MaxSnapshots == 3
MaxPaused == 2
MaxAnimated == 3
MaxPasses == 2

(* 0.25 axis units in units of 0.05 *)
SnapThreshold == 5

None == <<>>
NoText == ""

---------------------------------------------------------------------------
(* Arithmetic *)
Abs(x) == IF x < 0 THEN -x ELSE x

Sign(x) == IF x < 0 THEN -1 ELSE IF x > 0 THEN 1 ELSE 0

RECURSIVE GCD(_, _)
GCD(a, b) == IF b = 0 THEN a ELSE GCD(b, a % b)

(* The float num / den, as a reduced fraction *)
Frac(num, den) ==
    IF den = 0 THEN [num |-> Sign(num), den |-> 0]
    ELSE LET g == GCD(Abs(num), den)
         IN  [num |-> num \div g, den |-> den \div g]

Whole(x) == [num |-> x, den |-> 1]

WholePoint(p) == <<Whole(p[1]), Whole(p[2])>>

(* seq[idx] of Python: 0-based, a negative index counts from the end *)
PyIndex(seq, idx) == seq[(IF idx < 0 THEN Len(seq) + idx ELSE idx) + 1]

---------------------------------------------------------------------------
(* Inputs *)
PointInputs ==
    [ slide |-> [pos0 |-> <<0, 0>>,   step |-> <<2, 2>>,   size0 |-> 5, sizeStep |-> 0],
      jump  |-> [pos0 |-> <<0, 0>>,   step |-> <<20, 20>>, size0 |-> 5, sizeStep |-> 2],
      edge  |-> [pos0 |-> <<10, 10>>, step |-> <<5, -5>>,  size0 |-> 0, sizeStep |-> 3],
      back  |-> [pos0 |-> <<20, 3>>,  step |-> <<-6, 1>>,  size0 |-> 6, sizeStep |-> -1],
      rise  |-> [pos0 |-> <<3, 0>>,   step |-> <<1, 6>>,   size0 |-> 1, sizeStep |-> 0] ]

PointSets ==
    { <<"slide">>, <<"jump">>, <<"slide", "jump">>, <<"edge", "back">>,
      <<"rise", "edge">>, <<"back", "rise", "slide">> }

Thresholds == {0, 5}

FrameLabelNames == <<"F0", "F1", "F2", "F3", "F4", "F5">>
TextLabelNames == <<"T0", "T1", "T2", "T3">>

PositionOf(kind, n) ==
    LET p == PointInputs[kind]
    IN  <<p.pos0[1] + n * p.step[1], p.pos0[2] + n * p.step[2]>>

SizeOf(kind, n) == PointInputs[kind].size0 + n * PointInputs[kind].sizeStep

---------------------------------------------------------------------------
(* __init__ *)
framedelta == paused + animated

numframes == framedelta * Len(position)

(* frames=range(paused, numframes) *)
FirstFrameAtPaused == paused

FirstFrame == framedelta

Init ==
    /\ \E n \in 1..MaxSnapshots, pts \in PointSets :
         /\ position = [s \in 1..n |-> [j \in 1..Len(pts) |-> PositionOf(pts[j], s - 1)]]
         /\ sizes \in { None,
                        [s \in 1..n |-> [j \in 1..Len(pts) |-> SizeOf(pts[j], s - 1)]] }
         /\ frame_labels \in { None, SubSeq(FrameLabelNames, 1, n) }
         /\ text_labels \in { None, SubSeq(TextLabelNames, 1, Len(pts)) }
    /\ animated \in 0..MaxAnimated
    /\ paused \in 0..MaxPaused
    /\ threshold \in Thresholds
    /\ lines \in BOOLEAN
    /\ debug \in BOOLEAN
    /\ repeat \in BOOLEAN
    /\ scat_offsets = None
    /\ scat_sizes = None
    /\ scat_mangled_sizes = None
    /\ frame_text = NoText
    /\ ax_texts = None
    /\ idx_counter = -1
    /\ ax_lines = <<>>
    /\ printed = -1
    /\ next_idx = 0
    /\ prev_idx = 0
    /\ phase = "NONE"
    /\ pc = "start"
    /\ frame = 0
    /\ delivered = 0
    /\ passes = 0

---------------------------------------------------------------------------
(* initScat *)
NumPoints == Len(position[1])

(* >= for > at line 94 *)
LabelShownAtThreshold(j) == sizes[1][j] >= threshold

LabelShown(j) == sizes[1][j] > threshold

(* line 89 subscripts text_labels, lines 94 and 117 subscript sizes *)
CaptionRaises == frame_labels # None /\ text_labels = None

SizesRaise == sizes = None

InitScatRaises == CaptionRaises \/ SizesRaise

initScat ==
    /\ frame_text' = IF frame_labels # None /\ ~CaptionRaises
                     THEN PyIndex(text_labels, 0)
                     ELSE frame_text
    /\ ax_texts' = IF CaptionRaises THEN ax_texts
                   ELSE IF text_labels # None /\ ~SizesRaise
                   THEN [j \in 1..Len(text_labels) |->
                            IF LabelShown(j) THEN WholePoint(position[1][j]) ELSE None]
                   ELSE <<>>
    /\ idx_counter' = IF debug /\ ~InitScatRaises THEN 0 ELSE idx_counter
    /\ scat_offsets' = IF InitScatRaises THEN scat_offsets
                       ELSE [j \in 1..NumPoints |-> WholePoint(position[1][j])]
    /\ scat_sizes' = IF InitScatRaises THEN scat_sizes ELSE sizes[1]
    /\ scat_mangled_sizes' = IF InitScatRaises THEN scat_mangled_sizes ELSE None
    /\ pc' = IF InitScatRaises THEN "error" ELSE "running"
    /\ UNCHANGED ax_lines

---------------------------------------------------------------------------
(* update *)
(* the pause window one frame short at line 148 *)
PauseFrameShort(i) == (i % framedelta) + 1 < paused

PauseFrame(i) == (i % framedelta) < paused

OffsetDelta(n, p, j) ==
    <<PyIndex(position, n)[j][1] - PyIndex(position, p)[j][1],
      PyIndex(position, n)[j][2] - PyIndex(position, p)[j][2]>>

(* line 152 without "- self.paused" *)
BlendFromSegmentStart(i, n, p, j) ==
    LET d == OffsetDelta(n, p, j)
        t == i % framedelta
        a == PyIndex(position, p)[j]
    IN  <<Frac(a[1] * animated + d[1] * t, animated),
          Frac(a[2] * animated + d[2] * t, animated)>>

(* line 152 *)
Blend(i, n, p, j) ==
    LET d == OffsetDelta(n, p, j)
        t == (i % framedelta) - paused
        a == PyIndex(position, p)[j]
    IN  <<Frac(a[1] * animated + d[1] * t, animated),
          Frac(a[2] * animated + d[2] * t, animated)>>

(* line 154 testing the x axis only *)
OffsetIdxXOnly(n, p, j) == Abs(OffsetDelta(n, p, j)[1]) > SnapThreshold

(* line 154 *)
OffsetIdx(n, p, j) ==
    \/ Abs(OffsetDelta(n, p, j)[1]) > SnapThreshold
    \/ Abs(OffsetDelta(n, p, j)[2]) > SnapThreshold

(* lines 151-155 *)
Offset(i, n, p) ==
    [j \in 1..NumPoints |->
        IF OffsetIdx(n, p, j) THEN WholePoint(PyIndex(position, n)[j])
        ELSE Blend(i, n, p, j)]

(* lines 137-142: one segment per point the mask keeps, in point order *)
RECURSIVE Segments(_)
Segments(j) ==
    IF j > NumPoints THEN <<>>
    ELSE (IF sizes[1][j] > threshold
          THEN << <<PyIndex(position, 0)[j], PyIndex(position, -1)[j]>> >>
          ELSE <<>>) \o Segments(j + 1)

LastFrame(i) == i = numframes - 1

(* line 137 and line 157 subscript sizes *)
UpdateRaises(i) == sizes = None /\ ((lines /\ LastFrame(i)) \/ ~PauseFrame(i))

update(i) ==
    LET n == i \div framedelta
        p == n - 1
        drawsLines == lines /\ LastFrame(i) /\ sizes # None
        moves == ~PauseFrame(i) /\ ~UpdateRaises(i)
    IN  /\ next_idx' = n
        /\ prev_idx' = p
        /\ printed' = i
        /\ ax_lines' = IF drawsLines THEN ax_lines \o Segments(1) ELSE ax_lines
        /\ idx_counter' = IF debug /\ (sizes # None \/ ~(lines /\ LastFrame(i)))
                          THEN i ELSE idx_counter
        /\ phase' = IF PauseFrame(i) THEN "PAUSED" ELSE "INTERPOLATING"
        /\ scat_offsets' = IF moves THEN Offset(i, n, p) ELSE scat_offsets
        /\ frame_text' = IF moves /\ frame_labels # None
                         THEN PyIndex(frame_labels, n) ELSE frame_text
        /\ ax_texts' = IF moves /\ text_labels # None
                       THEN [j \in 1..Len(text_labels) |->
                                IF ax_texts[j] # None THEN Offset(i, n, p)[j]
                                ELSE ax_texts[j]]
                       ELSE ax_texts
        /\ scat_mangled_sizes' = IF moves /\ sizes # None
                                 THEN PyIndex(sizes, n) ELSE scat_mangled_sizes
        /\ pc' = IF UpdateRaises(i) THEN "error" ELSE pc
        /\ UNCHANGED scat_sizes

---------------------------------------------------------------------------
(* FuncAnimation(fig, update, frames=range(framedelta, numframes),         *)
(*               init_func=initScat, repeat=repeat)                        *)
InitScat ==
    /\ pc = "start"
    /\ initScat
    /\ frame' = FirstFrame
    /\ delivered' = 0
    /\ passes' = 1
    /\ UNCHANGED <<config, locals>>

Update ==
    /\ pc = "running"
    /\ frame < numframes
    /\ update(frame)
    /\ frame' = frame + 1
    /\ delivered' = delivered + 1
    /\ UNCHANGED <<config, passes>>

Repeat ==
    /\ pc = "running"
    /\ frame >= numframes
    /\ repeat
    /\ passes < MaxPasses
    /\ initScat
    /\ frame' = FirstFrame
    /\ delivered' = 0
    /\ passes' = passes + 1
    /\ UNCHANGED <<config, locals>>

Finish ==
    /\ pc = "running"
    /\ frame >= numframes
    /\ ~repeat
    /\ pc' = "done"
    /\ UNCHANGED <<config, render, locals, frame, delivered, passes>>

Next == InitScat \/ Update \/ Repeat \/ Finish

Spec == Init /\ [][Next]_vars

---------------------------------------------------------------------------
(* Properties *)

(* update() has been called since the latest initScat; printed is its i *)
Called == pc \in {"running", "done"} /\ delivered > 0

SegmentLength == paused + animated

TotalFrames == SegmentLength * Len(position)

(* the snapshots of the segment frame i lies in, as 1-based indices *)
PrevSnapshot(i) == position[i \div SegmentLength]
NextSnapshot(i) == position[(i \div SegmentLength) + 1]

InterpolationFrame(i) == (i % SegmentLength) >= paused

LocalStep(i) == (i % SegmentLength) - paused

SmallMove(i, j) ==
    /\ Abs(NextSnapshot(i)[j][1] - PrevSnapshot(i)[j][1]) <= SnapThreshold
    /\ Abs(NextSnapshot(i)[j][2] - PrevSnapshot(i)[j][2]) <= SnapThreshold

Stays(i, j) == NextSnapshot(i)[j] = PrevSnapshot(i)[j]

(* the fraction r equals prev + (next - prev) * t / k *)
IsBlend(r, prev, next, t, k) ==
    /\ r.den > 0
    /\ r.num * k = r.den * (prev * k + (next - prev) * t)

(* C1: after update(i) for an interpolation frame i, every point whose |dx|
   and |dy| between prev and next are both <= 0.25 is displayed at
   prev + (next - prev) * t / k with t = (i mod (p+k)) - p; for
   [[0,0]] -> [[0.1,0.1]], p = 1, k = 2, frame 4 shows [0,0] and frame 5
   shows [0.05,0.05]. *)
C1_LinearBlend ==
    (Called /\ InterpolationFrame(printed)) =>
        /\ \A j \in 1..Len(position[1]) :
              SmallMove(printed, j) =>
                 \A c \in 1..2 :
                    IsBlend(scat_offsets[j][c], PrevSnapshot(printed)[j][c],
                            NextSnapshot(printed)[j][c], LocalStep(printed), animated)
        /\ (/\ paused = 1 /\ animated = 2
            /\ position[1][1] = <<0, 0>> /\ position[2][1] = <<2, 2>>) =>
              /\ printed = 4 => scat_offsets[1] = <<Whole(0), Whole(0)>>
              /\ printed = 5 => scat_offsets[1] = <<Whole(1), Whole(1)>>

C1_Witness ==
    /\ Called /\ paused = 1 /\ animated = 2 /\ printed = 5
    /\ position[1][1] = <<0, 0>> /\ position[2][1] = <<2, 2>>
    /\ scat_offsets[1] = <<Whole(1), Whole(1)>>

(* C2: after update(i) for an interpolation frame i, every point whose
   |dx| > 0.25 or |dy| > 0.25 between prev and next is displayed at
   position[next], at every step t of the segment, and a point that moves by
   at most 0.25 in both axes is not displayed at position[next]; for
   [[0,0]] -> [[1,1]], p = 1, k = 2, frame 3 leaves [0,0] and frames 4 and 5
   show [1,1]. *)
C2_SnapToNext ==
    Called =>
        /\ InterpolationFrame(printed) =>
              \A j \in 1..Len(position[1]) :
                 IF SmallMove(printed, j)
                 THEN Stays(printed, j)
                      \/ scat_offsets[j] # WholePoint(NextSnapshot(printed)[j])
                 ELSE scat_offsets[j] = WholePoint(NextSnapshot(printed)[j])
        /\ (/\ paused = 1 /\ animated = 2
            /\ position[1][1] = <<0, 0>> /\ position[2][1] = <<20, 20>>) =>
              /\ printed = 3 => scat_offsets[1] = <<Whole(0), Whole(0)>>
              /\ printed \in {4, 5} => scat_offsets[1] = <<Whole(20), Whole(20)>>

C2_Witness ==
    /\ Called /\ InterpolationFrame(printed)
    /\ LocalStep(printed) = animated - 1 /\ animated > 1
    /\ \E j \in 1..Len(position[1]) :
          ~SmallMove(printed, j)
          /\ PrevSnapshot(printed)[j][1] = NextSnapshot(printed)[j][1] - 1
          /\ scat_offsets[j] = WholePoint(NextSnapshot(printed)[j])
    /\ \E j \in 1..Len(position[1]) :
          SmallMove(printed, j) /\ scat_offsets[j] # WholePoint(NextSnapshot(printed)[j])

(* C3: update(i) for a driven frame i with i mod (paused + animated) < paused
   leaves the displayed positions, the displayed sizes, the caption and the
   label positions as they were before the call. *)
C3_PauseFrameKeepsDisplay ==
    [][ (/\ pc = "running"
         /\ frame < TotalFrames
         /\ (frame % SegmentLength) < paused)
        => (/\ scat_offsets' = scat_offsets
            /\ scat_sizes' = scat_sizes
            /\ frame_text' = frame_text
            /\ ax_texts' = ax_texts) ]_vars

C3_Witness ==
    /\ Called /\ (printed % SegmentLength) < paused
    /\ printed \div SegmentLength = 2
    /\ scat_offsets # [j \in 1..Len(position[1]) |-> WholePoint(position[1][j])]
    /\ frame_labels # None /\ frame_text = frame_labels[2]
    /\ text_labels # None /\ \E j \in 1..Len(ax_texts) : ax_texts[j] # None

(* C4: in every pause window (frames i with i mod (p+k) < p, n = i div (p+k)
   in 1..N-1) every point is displayed exactly at snapshot position[n-1]:
   the transition into a snapshot has arrived before the next pause.  Stated
   for transitions of at least one frame (animated > 0). *)
C4_PauseAtSnapshot ==
    (Called /\ animated > 0 /\ (printed % SegmentLength) < paused) =>
        scat_offsets = [j \in 1..Len(position[1]) |->
                           WholePoint(PrevSnapshot(printed)[j])]

(* C5: after update(i) for an interpolation frame i the scatter displays
   sizes[i div (paused + animated)] for every point. *)
C5_SizesSnapToNext ==
    (Called /\ InterpolationFrame(printed)) =>
        scat_sizes = sizes[(printed \div SegmentLength) + 1]

(* the segments the claim expects: first to last position of every point
   whose frame-0 size exceeds the threshold *)
RECURSIVE ExpectedLines(_)
ExpectedLines(j) ==
    IF j > Len(position[1]) THEN <<>>
    ELSE (IF sizes[1][j] > threshold
          THEN << <<position[1][j], position[Len(position)][j]>> >>
          ELSE <<>>) \o ExpectedLines(j + 1)

(* update(totalFrames - 1) has run, in this pass or in an earlier one *)
LastFrameReached ==
    /\ TotalFrames > SegmentLength
    /\ passes > 1 \/ (delivered > 0 /\ printed = TotalFrames - 1)

(* C6: with lines enabled, over one pass or repeated passes, the connecting
   segments are drawn exactly once, by the update for i = totalFrames - 1
   and by no other frame, one for each point j with sizes[0][j] > threshold. *)
C6_LinesDrawnOnce ==
    (lines /\ pc \in {"running", "done"}) =>
        IF LastFrameReached THEN ax_lines = ExpectedLines(1) ELSE ax_lines = <<>>

(* C7: with text labels, after initialization and after every update the
   label table has one entry per point and point j has a label object iff
   sizes[0][j] > threshold. *)
C7_LabelsOnlyAboveThreshold ==
    (text_labels # None /\ pc \in {"running", "done"}) =>
        /\ Len(ax_texts) = Len(position[1])
        /\ \A j \in 1..Len(position[1]) :
              (ax_texts[j] # None) <=> (sizes[1][j] > threshold)

C7_Witness ==
    /\ Called /\ InterpolationFrame(printed) /\ text_labels # None
    /\ \E j \in 1..Len(ax_texts) : ax_texts[j] = None /\ sizes[1][j] = threshold
    /\ \E j \in 1..Len(ax_texts) :
          ax_texts[j] # None /\ ax_texts[j] # WholePoint(position[1][j])

(* C8: with sizes absent and the other inputs well formed, initialization
   and every update complete without an error.  The caption needs the text
   labels (C10), so the inputs here have no caption without them. *)
C8_SizesOptional ==
    (sizes = None /\ ~(frame_labels # None /\ text_labels = None)) => pc # "error"

(* C9: totalFrames = (paused + animated) * N; a pass delivers exactly the
   frames paused+animated .. totalFrames-1 in increasing order, so it is N-1
   transitions with 0 <= prevIdx < nextIdx <= N-1 at every driven frame, each
   of `paused` PAUSED ticks followed by `animated` INTERPOLATING ticks. *)
C9_PassIsTransitions ==
    pc \in {"running", "done"} =>
        /\ numframes = TotalFrames
        /\ frame = SegmentLength + delivered
        /\ frame <= TotalFrames
        /\ (pc = "done" \/ ~ENABLED Update) =>
              delivered = (Len(position) - 1) * SegmentLength
        /\ delivered > 0 =>
              /\ printed = SegmentLength + delivered - 1
              /\ next_idx = ((delivered - 1) \div SegmentLength) + 1
              /\ prev_idx = next_idx - 1
              /\ 0 <= prev_idx /\ prev_idx < next_idx
              /\ next_idx <= Len(position) - 1
              /\ phase = IF ((delivered - 1) % SegmentLength) < paused
                         THEN "PAUSED" ELSE "INTERPOLATING"

C9_Witness ==
    /\ pc = "done" /\ Len(position) = 3 /\ paused = 1 /\ animated = 2
    /\ delivered = 6 /\ printed = 8 /\ next_idx = 2 /\ prev_idx = 1
    /\ phase = "INTERPOLATING"

(* C10: with frame labels the caption is frameLabels[0] from initialization
   until the first interpolation frame and frameLabels[i div (p+k)] after the
   update for an interpolation frame i; it is always an entry of frameLabels,
   and initialization does not need text labels.  The inputs here have
   sizes (C8). *)
C10_CaptionIsFrameLabel ==
    (frame_labels # None /\ sizes # None) =>
        /\ pc # "error"
        /\ pc \in {"running", "done"} =>
              /\ \E n \in 1..Len(frame_labels) : frame_text = frame_labels[n]
              /\ delivered = 0 => frame_text = frame_labels[1]
              /\ (delivered > 0 /\ InterpolationFrame(printed)) =>
                    frame_text = frame_labels[(printed \div SegmentLength) + 1]

====
